---- MODULE Spec2Model ----
(***************************************************************************)
(* Model of the CAN over-the-air update script, in its two variants:       *)
(*   "A"  src/can-update-script.py   (timeout 120 s, source-address ack)   *)
(*   "B"  src/unnamed/part_000       (timeout 10 s, PGN-group ack)         *)
(* main() is a pc-indexed state machine; every stage function is one       *)
(* action, except wait_for_response, whose polling loop takes one action   *)
(* per loop iteration.  Time inside the wait is counted in seconds; file   *)
(* timestamps are counted in coarse units (one unit = one timezone step).  *)
(***************************************************************************)
EXTENDS Integers, Sequences, FiniteSets

VARIABLES
    variant,      \* which script is running: "A" or "B"
    tz,           \* local timezone offset from UTC, in coarse time units
    pc,           \* position of main()
    now,          \* wall clock (UTC), coarse units
    remoteMod,    \* Last-Modified time of the remote artifact (UTC)
    localExists,  \* os.path.exists(LOCAL_DOWNLOAD_PATH)
    localMod,     \* os.path.getmtime(LOCAL_DOWNLOAD_PATH), epoch (UTC)
    changed,      \* the remote artifact changed since the last freshness check
    prevFreshFailed, \* the previous cycle saw a fresh artifact and did not complete
    res,          \* this cycle's stage results, as main() saw them
    ops,          \* this cycle's operation counts
    elapsed,      \* time.time() - start_time inside wait_for_response
    nFrames,      \* frames delivered by recv in this wait
    lastRecv,     \* what the last bus.recv call produced
    waitCause,    \* why wait_for_response returned
    ackDelivered, \* history: recv delivered a frame the specified policy accepts
    missed,       \* frames put on the bus after bus.send and before the wait's Bus(...)
    waited,       \* seconds slept by main() since the current cycle began
    live,         \* bus handles referenced by a running stage function
    garbage       \* bus handles no longer referenced and not yet closed

vars == <<variant, tz, pc, now, remoteMod, localExists, localMod, changed,
          prevFreshFailed, res, ops, elapsed, nFrames, lastRecv, waitCause,
          ackDelivered, missed, waited, live, garbage>>

---------------------------------------------------------------------------
(* Bounds of the model                                                     *)

\* coarse wall-clock horizon
MaxNow == 1
\* frames the bus delivers during one wait
MaxFrames == 2
\* bus handles the process may hold open (descriptor limit)
MaxHandles == 3

---------------------------------------------------------------------------
(* Program constants                                                       *)

Variants == {"A", "B"}
TZOffsets == {-1, 0, 1}

\* timeout = 120 / timeout = 10
TimeoutA == 120
TimeoutB == 10
\* bus.recv(timeout=1)
PollInterval == 1
\* DOWNLOAD_CHECK_INTERVAL = 60
DownloadCheckInterval == 60

\* arbitration_id=0x18FF14FA, data=[1, 0, 0, 0, 0, 0, 0, 0]
TriggerId == \H18FF14FA
TriggerData == <<1, 0, 0, 0, 0, 0, 0, 0>>

\* msg.arbitration_id & 0xFF ; source_addr == 3
SourceMask == \HFF
AckSourceAddr == 3
\* (msg.arbitration_id & 0x1FFFF00) == 0x18FF14FB00
GroupMaskB == \H1FFFF00
\* 0x18FF14FB00 does not fit a 32-bit integer: its base-256 digits, low first
GroupValueB == <<0, \HFB, \H14, \HFF, \H18>>

Timeout(v) == IF v = "A" THEN TimeoutA ELSE TimeoutB

---------------------------------------------------------------------------
(* Integer helpers: Python's & on non-negative ints, and int equality on   *)
(* values wider than the checker's integers                                *)

RECURSIVE BitAnd(_, _)
BitAnd(a, b) ==
    IF a = 0 \/ b = 0 THEN 0
    ELSE (a % 2) * (b % 2) + 2 * BitAnd(a \div 2, b \div 2)

\* base-256 digits of n, low first, no leading zero digit (0 is << >>)
RECURSIVE Digits256(_)
Digits256(n) ==
    IF n = 0 THEN << >> ELSE <<n % 256>> \o Digits256(n \div 256)

---------------------------------------------------------------------------
(* Frames the bus can deliver                                              *)

Frame(id, data) == [id |-> id, data |-> data]

Frames ==
    { Frame(\H18FF14FB, TriggerData),      \* PGN 65300 group, SA 0xFB, data[0]=1
      Frame(\H18FF1403, TriggerData),      \* PGN 65300 group, SA 3, data[0]=1
      Frame(\H18FEF103, <<1>>),            \* other group, SA 3, data[0]=1
      Frame(TriggerId, TriggerData),       \* the trigger frame itself
      Frame(\H18FF1401, <<0>>),            \* SA 1, data[0]=0
      Frame(\H18FF1403, << >>) }           \* SA 3, empty payload

\* msg.data[0] == 1: IndexError on an empty payload
DataByte0Is1(f) ==
    IF Len(f.data) = 0 THEN "raise"
    ELSE IF f.data[1] = 1 THEN "match" ELSE "nomatch"

\* variant A, lines 127-130
\* AckEvalA with a fault: the source address is not tested
AckEvalA_NoSource(f) == DataByte0Is1(f)

AckEvalA(f) ==
    LET source_addr == BitAnd(f.id, SourceMask) IN
    IF source_addr = AckSourceAddr
    THEN DataByte0Is1(f)
    ELSE "nomatch"

\* variant B, lines 102-105
AckEvalB(f) ==
    IF Digits256(BitAnd(f.id, GroupMaskB)) = GroupValueB
    THEN DataByte0Is1(f)
    ELSE "nomatch"

AckEval(v, f) == IF v = "A" THEN AckEvalA(f) ELSE AckEvalB(f)

---------------------------------------------------------------------------
(* The recognition policies as the specification states them (section 6).  *)
(* The program does not compute these: they are the vocabulary of the      *)
(* claims, and of the history variable ackDelivered.                       *)

\* fixed source address 3 with payload byte 0 equal to 1
SpecAckSource(m) ==
    /\ m.id % 256 = 3
    /\ Len(m.data) >= 1
    /\ m.data[1] = 1

\* PGN group of 0x18FF14FB, the source-address byte masked out, byte 0 = 1
SpecAckGroup(m) ==
    /\ m.id - (m.id % 256) = \H18FF14FB - (\H18FF14FB % 256)
    /\ Len(m.data) >= 1
    /\ m.data[1] = 1

SpecAck(v, m) == IF v = "A" THEN SpecAckSource(m) ELSE SpecAckGroup(m)

---------------------------------------------------------------------------
(* check_and_download_file                                                 *)

HeadResults == {"ok", "RequestException"}
HeaderKinds == {"valid", "missing", "malformed"}
GetResults == {"ok", "RequestException"}
WriteResults == {"ok", "OSError"}

FileState(r, exists, mtime) == [r |-> r, exists |-> exists, mtime |-> mtime]

\* datetime.utcfromtimestamp(os.path.getmtime(...)): the epoch read as UTC
LocalModifiedA(mtime) == mtime
\* datetime.fromtimestamp(os.path.getmtime(...)): the epoch read as local time
LocalModifiedB(mtime, offset) == mtime + offset
\* remote_modified_dt.timestamp() on a naive datetime: read as local time
UtimeStamp(remote, offset) == remote - offset

\* variant A, lines 70-87: the download once needs_download is known
DownloadA(hdr, get, write, exists, mtime, remote, clock, offset) ==
    IF get = "RequestException" THEN FileState("neterr", exists, mtime)
    ELSE IF write = "OSError" THEN FileState("raise", exists, mtime)
    ELSE IF hdr = "missing" THEN FileState("fresh", TRUE, clock)
    ELSE IF hdr = "malformed" THEN FileState("raise", TRUE, clock)
    ELSE FileState("fresh", TRUE, UtimeStamp(remote, offset))

\* variant A, lines 41-91
CheckAndDownloadA(head, hdr, get, write, exists, mtime, remote, clock, offset) ==
    IF head = "RequestException" THEN FileState("neterr", exists, mtime)
    ELSE IF hdr = "missing"
         THEN DownloadA(hdr, get, write, exists, mtime, remote, clock, offset)
    ELSE IF ~exists
         THEN DownloadA(hdr, get, write, exists, mtime, remote, clock, offset)
    ELSE IF hdr = "malformed" THEN FileState("raise", exists, mtime)
    ELSE IF remote > LocalModifiedA(mtime)
         THEN DownloadA(hdr, get, write, exists, mtime, remote, clock, offset)
    ELSE FileState("uptodate", exists, mtime)

\* variant B, lines 60-67: "True", "False" or "raise"
ShouldDownload(hdr, exists, mtime, remote, offset) ==
    IF ~exists THEN "True"
    ELSE IF hdr # "valid" THEN "raise"
    ELSE IF remote > LocalModifiedB(mtime, offset) THEN "True" ELSE "False"

\* variant B, lines 48-54
DownloadB(get, write, exists, mtime, clock) ==
    IF get = "RequestException" THEN FileState("neterr", exists, mtime)
    ELSE IF write = "OSError" THEN FileState("raise", exists, mtime)
    ELSE FileState("fresh", TRUE, clock)

\* variant B, lines 39-58
CheckAndDownloadB(head, hdr, get, write, exists, mtime, remote, clock, offset) ==
    IF head = "RequestException" THEN FileState("neterr", exists, mtime)
    ELSE IF ~exists THEN DownloadB(get, write, exists, mtime, clock)
    ELSE IF ShouldDownload(hdr, exists, mtime, remote, offset) = "raise"
         THEN FileState("raise", exists, mtime)
    ELSE IF ShouldDownload(hdr, exists, mtime, remote, offset) = "True"
         THEN DownloadB(get, write, exists, mtime, clock)
    ELSE FileState("uptodate", exists, mtime)

\* what check_and_download_file hands to main()
CheckReturn(r) ==
    IF r = "fresh" THEN "True" ELSE IF r = "raise" THEN "raise" ELSE "False"

---------------------------------------------------------------------------
(* main(): where each stage's result sends the loop                        *)

\* AfterCheck with a fault: the result of the freshness check is not tested
AfterCheck_Ungated(r) == IF r = "raise" THEN "exc_sleep" ELSE "setup"
\* AfterSend with a fault: a failed send does not end the cycle
AfterSend_NoContinue(r) == "wait_open"
\* AfterWait with a fault: an unacknowledged wait does not end the cycle
AfterWait_NoContinue(r) == "update"

\* AfterSetup with a fault: an exception in the setup ends the loop
AfterSetup_Fatal(r) ==
    IF r = "True" THEN "send" ELSE IF r = "False" THEN "top" ELSE "stopped"
\* AfterUpdate with a fault: a failed update command is tried again
AfterUpdate_Retry(r) ==
    IF r = "True" THEN "sleep" ELSE IF r = "False" THEN "update" ELSE "exc_sleep"
\* LoopContinues with a fault: the deadline is not tested
LoopContinues_NoDeadline(v, e) == TRUE

\* lines 157 / 178 / 183-185
AfterCheck(r) ==
    IF r = "True" THEN "setup" ELSE IF r = "False" THEN "sleep" ELSE "exc_sleep"
\* lines 160-162
AfterSetup(r) ==
    IF r = "True" THEN "send" ELSE IF r = "False" THEN "top" ELSE "exc_sleep"
\* lines 164-166
AfterSend(r) == IF r = "True" THEN "wait_open" ELSE "top"
\* lines 168-170
AfterWait(r) == IF r = "True" THEN "update" ELSE "top"
\* lines 172-178
AfterUpdate(r) ==
    IF r = "True" THEN "sleep" ELSE IF r = "False" THEN "top" ELSE "exc_sleep"

\* wait_for_response: the loop condition, line 119 / 95
LoopContinues(v, e) == e < Timeout(v)
\* wait_for_response: the value returned for each way of leaving, lines 130-136
WaitReturn(cause) == IF cause = "ack" THEN "True" ELSE "False"

---------------------------------------------------------------------------
(* State                                                                   *)

NoRes == [check |-> "none", setup |-> "none", send |-> "none",
          wait |-> "none", update |-> "none"]
NoOps == [setup |-> 0, open |-> 0, send |-> 0, recv |-> 0, update |-> 0]
Idle == [kind |-> "idle", id |-> 0, data |-> << >>]
RecvNone == [kind |-> "none", id |-> 0, data |-> << >>]
RecvError == [kind |-> "error", id |-> 0, data |-> << >>]
RecvFrame(f) == [kind |-> "frame", id |-> f.id, data |-> f.data]

Init ==
    /\ variant \in Variants
    /\ tz \in TZOffsets
    /\ pc = "top"
    /\ now = 0
    /\ remoteMod = 0
    /\ localExists = FALSE
    /\ localMod = 0
    /\ changed = FALSE
    /\ prevFreshFailed = FALSE
    /\ res = NoRes
    /\ ops = NoOps
    /\ elapsed = 0
    /\ nFrames = 0
    /\ lastRecv = Idle
    /\ waitCause = "none"
    /\ ackDelivered = FALSE
    /\ missed = 0
    /\ waited = 0
    /\ live = 0
    /\ garbage = 0

envVars == <<now, remoteMod, changed>>
fileVars == <<localExists, localMod>>
waitVars == <<elapsed, nFrames, lastRecv, waitCause, ackDelivered, missed>>
busVars == <<live, garbage>>
fixedVars == <<variant, tz>>

---------------------------------------------------------------------------
(* Environment                                                             *)

\* wall-clock time passes
Tick ==
    /\ pc = "check"
    /\ now < MaxNow
    /\ now' = now + 1
    /\ UNCHANGED <<fixedVars, pc, remoteMod, changed, prevFreshFailed, fileVars,
                   res, ops, waitVars, waited, busVars>>

\* a new artifact is published: its Last-Modified is the time of publication
RemoteChange ==
    /\ pc = "check"
    /\ now < MaxNow
    /\ now' = now + 1
    /\ remoteMod' = now + 1
    /\ changed' = TRUE
    /\ UNCHANGED <<fixedVars, pc, prevFreshFailed, fileVars, res, ops, waitVars,
                   waited, busVars>>

\* A bus object nothing refers to any more is closed when the interpreter
\* finalizes it: at once when a stage function returns (reference counting),
\* at some later cycle, or never.  Nothing reads the count but the next
\* Bus(...) call, so finalization is placed at the two points before one.
Finalize ==
    /\ pc \in {"top", "wait_open"}
    /\ garbage > 0
    /\ garbage' = garbage - 1
    /\ UNCHANGED <<fixedVars, pc, envVars, prevFreshFailed, fileVars, res, ops,
                   waitVars, waited, live>>

\* The device answers the trigger while main() is between send_can_message
\* and the Bus(...) call of wait_for_response: the frame is on the bus before
\* the receiving socket exists, and a socket gets only frames that arrive
\* after it was opened.
EarlyReply ==
    /\ pc = "wait_open"
    /\ missed = 0
    /\ missed' = 1
    /\ UNCHANGED <<fixedVars, pc, envVars, prevFreshFailed, fileVars, res, ops,
                   elapsed, nFrames, lastRecv, waitCause, ackDelivered, waited,
                   busVars>>

---------------------------------------------------------------------------
(* main()                                                                  *)

\* "while True: try:" -- a new cycle begins
BeginCycle ==
    /\ pc = "top"
    /\ pc' = "check"
    /\ prevFreshFailed' = (res.check = "fresh" /\ res.update # "True")
    /\ res' = NoRes
    /\ ops' = NoOps
    /\ elapsed' = 0
    /\ nFrames' = 0
    /\ lastRecv' = Idle
    /\ waitCause' = "none"
    /\ ackDelivered' = FALSE
    /\ missed' = 0
    /\ waited' = 0
    /\ UNCHANGED <<fixedVars, envVars, fileVars, busVars>>

CheckAndDownloadFile ==
    /\ pc = "check"
    /\ \E head \in HeadResults, hdr \in HeaderKinds, get \in GetResults,
          write \in WriteResults :
          LET out == IF variant = "A"
                     THEN CheckAndDownloadA(head, hdr, get, write, localExists,
                                            localMod, remoteMod, now, tz)
                     ELSE CheckAndDownloadB(head, hdr, get, write, localExists,
                                            localMod, remoteMod, now, tz)
          IN /\ localExists' = out.exists
             /\ localMod' = out.mtime
             /\ res' = [res EXCEPT !.check = out.r]
             /\ pc' = AfterCheck(CheckReturn(out.r))
    /\ changed' = FALSE
    /\ prevFreshFailed' = FALSE
    /\ UNCHANGED <<fixedVars, now, remoteMod, ops, waitVars, waited, busVars>>

SetupResults == {"True", "False", "raise"}

SetupCanInterface ==
    /\ pc = "setup"
    /\ \E r \in SetupResults :
          /\ res' = [res EXCEPT !.setup = r]
          /\ pc' = AfterSetup(r)
    /\ ops' = [ops EXCEPT !.setup = @ + 1]
    /\ UNCHANGED <<fixedVars, envVars, prevFreshFailed, fileVars, waitVars,
                   waited, busVars>>

\* can.interface.Bus(...) succeeds only while a descriptor is left
CanOpen == live + garbage < MaxHandles

SendCanMessage ==
    /\ pc = "send"
    /\ \E opened \in {b \in BOOLEAN : b => CanOpen}, sent \in BOOLEAN :
          LET r == IF opened /\ sent THEN "True" ELSE "False" IN
          /\ res' = [res EXCEPT !.send = r]
          /\ pc' = AfterSend(r)
          /\ ops' = [ops EXCEPT !.open = @ + 1,
                                !.send = IF opened THEN @ + 1 ELSE @]
          /\ garbage' = IF opened THEN garbage + 1 ELSE garbage
    /\ UNCHANGED <<fixedVars, envVars, prevFreshFailed, fileVars, waitVars,
                   waited, live>>

\* wait_for_response up to start_time = time.time()
WaitOpen ==
    /\ pc = "wait_open"
    /\ ops' = [ops EXCEPT !.open = @ + 1]
    /\ \E opened \in {b \in BOOLEAN : b => CanOpen} :
          IF opened
          THEN /\ live' = live + 1
               /\ pc' = "waiting"
               /\ elapsed' = 0
               /\ UNCHANGED <<res, waitCause>>
          ELSE /\ waitCause' = "error"
               /\ res' = [res EXCEPT !.wait = WaitReturn("error")]
               /\ pc' = AfterWait(WaitReturn("error"))
               /\ UNCHANGED <<live, elapsed>>
    /\ UNCHANGED <<fixedVars, envVars, prevFreshFailed, fileVars, nFrames,
                   lastRecv, ackDelivered, missed, waited, garbage>>

\* wait_for_response returns: its bus object is no longer referenced
WaitReturns(cause) ==
    /\ waitCause' = cause
    /\ res' = [res EXCEPT !.wait = WaitReturn(cause)]
    /\ pc' = AfterWait(WaitReturn(cause))
    /\ live' = live - 1
    /\ garbage' = garbage + 1
    /\ nFrames' = 0

\* one iteration of the loop: recv gives nothing within the poll interval
PollNone ==
    /\ pc = "waiting"
    /\ LoopContinues(variant, elapsed)
    /\ elapsed' = elapsed + PollInterval
    /\ lastRecv' = RecvNone
    /\ ops' = [ops EXCEPT !.recv = @ + 1]
    /\ UNCHANGED <<fixedVars, envVars, prevFreshFailed, fileVars, res, pc,
                   nFrames, waitCause, ackDelivered, missed, waited, busVars>>

\* one iteration of the loop: recv gives frame f after dt
PollFrame ==
    /\ pc = "waiting"
    /\ LoopContinues(variant, elapsed)
    /\ nFrames < MaxFrames
    /\ \E f \in Frames, dt \in 0..PollInterval :
          /\ elapsed' = elapsed + dt
          /\ lastRecv' = RecvFrame(f)
          /\ ackDelivered' = (ackDelivered \/ SpecAck(variant, f))
          /\ IF AckEval(variant, f) = "match" THEN WaitReturns("ack")
             ELSE IF AckEval(variant, f) = "raise" THEN WaitReturns("error")
             ELSE /\ nFrames' = nFrames + 1
                  /\ UNCHANGED <<pc, res, waitCause, busVars>>
    /\ ops' = [ops EXCEPT !.recv = @ + 1]
    /\ UNCHANGED <<fixedVars, envVars, prevFreshFailed, fileVars, missed, waited>>

\* one iteration of the loop: recv raises
PollError ==
    /\ pc = "waiting"
    /\ LoopContinues(variant, elapsed)
    /\ lastRecv' = RecvError
    /\ ops' = [ops EXCEPT !.recv = @ + 1]
    /\ WaitReturns("error")
    /\ UNCHANGED <<fixedVars, envVars, prevFreshFailed, fileVars, elapsed,
                   ackDelivered, missed, waited>>

\* the loop condition fails: lines 132-133
WaitExpire ==
    /\ pc = "waiting"
    /\ ~LoopContinues(variant, elapsed)
    /\ WaitReturns("timeout")
    /\ UNCHANGED <<fixedVars, envVars, prevFreshFailed, fileVars, ops, elapsed,
                   lastRecv, ackDelivered, missed, waited>>

UpdateResults == {"True", "False", "raise"}

SendUpdateCommand ==
    /\ pc = "update"
    /\ \E r \in UpdateResults :
          /\ res' = [res EXCEPT !.update = r]
          /\ pc' = AfterUpdate(r)
    /\ ops' = [ops EXCEPT !.update = @ + 1]
    \* the locals of wait_for_response are gone
    /\ elapsed' = 0
    /\ lastRecv' = Idle
    /\ UNCHANGED nFrames
    /\ UNCHANGED <<fixedVars, envVars, prevFreshFailed, fileVars, waitCause,
                   ackDelivered, missed, waited, busVars>>

\* time.sleep(DOWNLOAD_CHECK_INTERVAL) at the end of the loop body
Sleep ==
    /\ pc = "sleep"
    /\ pc' = "top"
    /\ waited' = waited + DownloadCheckInterval
    /\ UNCHANGED <<fixedVars, envVars, prevFreshFailed, fileVars, res, ops,
                   waitVars, busVars>>

\* except Exception: log, time.sleep(DOWNLOAD_CHECK_INTERVAL)
ExceptSleep ==
    /\ pc = "exc_sleep"
    /\ pc' = "top"
    /\ waited' = waited + DownloadCheckInterval
    /\ UNCHANGED <<fixedVars, envVars, prevFreshFailed, fileVars, res, ops,
                   waitVars, busVars>>

\* KeyboardInterrupt: break in variant A (lines 180-182), uncaught in variant
\* B; either way main() returns and the process ends, which closes its handles
Interrupt ==
    /\ pc # "stopped"
    /\ pc' = "stopped"
    /\ res' = NoRes
    /\ ops' = NoOps
    /\ elapsed' = 0
    /\ nFrames' = 0
    /\ lastRecv' = Idle
    /\ waitCause' = "none"
    /\ ackDelivered' = FALSE
    /\ missed' = 0
    /\ waited' = 0
    /\ live' = 0
    /\ garbage' = 0
    /\ prevFreshFailed' = FALSE
    /\ changed' = FALSE
    /\ UNCHANGED <<fixedVars, now, remoteMod, fileVars>>

Next ==
    \/ Tick
    \/ RemoteChange
    \/ Finalize
    \/ EarlyReply
    \/ BeginCycle
    \/ CheckAndDownloadFile
    \/ SetupCanInterface
    \/ SendCanMessage
    \/ WaitOpen
    \/ PollNone
    \/ PollFrame
    \/ PollError
    \/ WaitExpire
    \/ SendUpdateCommand
    \/ Sleep
    \/ ExceptSleep
    \/ Interrupt

Spec == Init /\ [][Next]_vars

---------------------------------------------------------------------------
(* Shorthands of the claims                                                *)

\* this step is one bus.recv call that delivered a frame
RecvDeliversFrame ==
    /\ pc = "waiting"
    /\ ops'.recv = ops.recv + 1
    /\ lastRecv'.kind = "frame"

InHandshake == pc \in {"wait_open", "waiting"}

---------------------------------------------------------------------------
(* Claims                                                                  *)

\* C1: in every cycle the update command is invoked only after, in this
\* order, the freshness check returned true, the interface setup succeeded,
\* the trigger was sent and the wait was acknowledged; once a stage has
\* failed, no later stage of that cycle runs.
C1_UpdateGated ==
    /\ (pc = "setup" \/ res.setup # "none") => res.check = "fresh"
    /\ (pc = "send" \/ res.send # "none") => res.setup = "True"
    /\ (InHandshake \/ res.wait # "none") => res.send = "True"
    /\ (pc = "update" \/ res.update # "none" \/ ops.update > 0)
          => (res.wait = "True" /\ waitCause = "ack")
    /\ res.check # "fresh" => ops = NoOps
    /\ res.setup # "True" => (ops.open = 0 /\ ops.send = 0)
    /\ res.send # "True" => (ops.recv = 0 /\ ops.open <= 1)
    /\ res.wait # "True" => ops.update = 0

C1_Witness ==
    /\ res.update = "True"
    /\ ops.update = 1
    /\ ops.recv >= 2

\* C2: after a cycle that detected a fresh artifact and then failed, the
\* next freshness check (the remote artifact unchanged, the requests
\* answered) reports the artifact as fresh again.
C2_FreshAgain ==
    [][(/\ pc = "check"
        /\ pc' \notin {"check", "stopped"}
        /\ prevFreshFailed
        /\ ~changed) => res'.check # "uptodate"]_vars

\* C3: a received frame that does not satisfy the ack predicate is
\* discarded: the wait goes on and no outcome is set.
C3_NonMatchingDiscarded ==
    [][(RecvDeliversFrame /\ ~SpecAck(variant, lastRecv'))
          => (pc' = "waiting" /\ res' = res /\ waitCause' = waitCause)]_vars

\* the channel itself failed: Bus(...) or bus.recv raised
ChannelError == waitCause = "error" /\ lastRecv.kind # "frame"

\* C4: a wait in which no frame satisfying the ack predicate is delivered
\* and the channel raises no error returns the timed-out result, no earlier
\* than the timeout after it started and no later than the timeout plus one
\* poll interval.
C4_TimeoutWindow ==
    (res.wait # "none" /\ ~ackDelivered /\ ~ChannelError)
        => /\ waitCause = "timeout"
           /\ res.wait = "False"
           /\ elapsed >= Timeout(variant)
           /\ elapsed <= Timeout(variant) + PollInterval

\* Lemma: a wait that leaves through the loop condition does so inside the
\* window.
DeadlineExitInWindow ==
    waitCause = "timeout"
        => /\ elapsed >= Timeout(variant)
           /\ elapsed <= Timeout(variant) + PollInterval
           /\ res.wait = "False"

\* C5: under the PGN-group policy, a frame of the group of 0x18FF14FB with
\* payload byte 0 equal to 1, received before the deadline, is the
\* acknowledgement whatever its source address: the wait ends Acknowledged.
C5_GroupAck ==
    (/\ variant = "B"
     /\ lastRecv.kind = "frame"
     /\ SpecAckGroup(lastRecv)
     /\ elapsed < Timeout(variant)) => waitCause = "ack"

\* C6: a wait that ended on a transport error returns a value different from
\* the one a timed-out wait returns.
C6_TimeoutDistinctFromError ==
    waitCause = "error" => res.wait # WaitReturn("timeout")

\* C7: the receive call that delivers a frame satisfying the ack predicate
\* before the deadline is the last one: the wait returns Acknowledged there.
C7_AckOnKthReceive ==
    [][(/\ RecvDeliversFrame
        /\ SpecAck(variant, lastRecv')
        /\ elapsed' < Timeout(variant))
          => (waitCause' = "ack" /\ pc' = "update")]_vars

\* C8: when a cycle is over, no bus handle opened during it is still open.
C8_HandlesReleased ==
    pc = "check" => live + garbage = 0

\* C9: when sending the trigger fails, the cycle ends at once: no receive
\* call, no wait and no update command in that cycle.
C9_SendFailureEndsCycle ==
    res.send = "False"
        => /\ pc = "top"
           /\ ops.recv = 0
           /\ ops.update = 0
           /\ res.wait = "none"
           /\ res.update = "none"

C9_Witness ==
    /\ res.send = "False"
    /\ ops.send = 1
    /\ pc = "top"

\* C10: a cycle whose freshness check reports no new artifact performs no
\* channel operation and does not invoke the update command.
C10_NotFreshNoOps ==
    res.check \in {"uptodate", "neterr"}
        => /\ ops = NoOps
           /\ pc \in {"sleep", "top"}
           /\ live = 0
           /\ res = [NoRes EXCEPT !.check = res.check]

C10_Witness ==
    /\ res.check = "uptodate"
    /\ localExists
    /\ pc = "top"

\* a stage of the current cycle has failed, by a False result or an exception
FailedStage ==
    \/ res.check \in {"neterr", "raise"}
    \/ res.setup \in {"False", "raise"}
    \/ res.send = "False"
    \/ res.wait = "False"
    \/ res.update \in {"False", "raise"}

\* C11: a failed stage, an exception included, ends only the current cycle:
\* main() has not stopped, it is at the sleep or at the top of the loop, and
\* the step towards the next cycle is possible.
C11_FailureEndsOnlyCycle ==
    FailedStage
        => /\ pc \in {"top", "sleep", "exc_sleep"}
           /\ pc = "top" => ENABLED BeginCycle
           /\ pc = "sleep" => ENABLED Sleep
           /\ pc = "exc_sleep" => ENABLED ExceptSleep

C11_Witness ==
    /\ res.setup = "raise"
    /\ pc = "top"
    /\ waited = DownloadCheckInterval

\* C12: in one cycle there is at most one interface setup, one trigger
\* frame, one wait (so two Bus(...) calls at most) and one update command;
\* in variant A, once a receive call of the wait has delivered a frame with
\* source address 3 and payload byte 0 equal to 1, the update command is
\* invoked exactly once.
C12_StagesOnce ==
    /\ ops.setup <= 1
    /\ ops.send <= 1
    /\ ops.update <= 1
    /\ ops.open <= 2
    /\ (res.send = "none") => ops.open = 0
    /\ (variant = "A" /\ ackDelivered /\ pc # "update") => ops.update = 1
    /\ (variant = "A" /\ ackDelivered /\ pc = "update") => ops.update = 0

C12_Witness ==
    /\ variant = "A"
    /\ ackDelivered
    /\ ops = [NoOps EXCEPT !.setup = 1, !.open = 2, !.send = 1,
                           !.recv = ops.recv, !.update = 1]
    /\ res.update \in {"False", "raise"}

WaitOutcomes == {"ack", "timeout", "error"}

\* C13: a started wait reaches exactly one of the outcomes ack, timeout,
\* error.  Each step of a wait either ends it with one outcome, or leaves it
\* without outcome before the deadline and advances the clock (a frame that
\* comes at once advances the count of frames instead); an outcome once set
\* is not replaced during the cycle; and the update stage is entered only by
\* the step that ends the wait with ack.
C13_WaitEndsOnce ==
    [][/\ (pc = "wait_open" /\ pc' \notin {"wait_open", "stopped"})
            => \/ pc' = "waiting" /\ waitCause' = "none" /\ res'.wait = "none"
               \/ pc' = "top" /\ waitCause' = "error" /\ res'.wait = "False"
       /\ (pc = "waiting" /\ pc' # "stopped")
            => \/ /\ pc' = "waiting"
                  /\ waitCause' = "none"
                  /\ res'.wait = "none"
                  /\ elapsed < Timeout(variant)
                  /\ \/ elapsed' > elapsed
                     \/ elapsed' = elapsed /\ nFrames' > nFrames
               \/ /\ pc' \in {"update", "top"}
                  /\ waitCause' \in WaitOutcomes
                  /\ res'.wait \in {"True", "False"}
                  /\ (pc' = "update") <=> (waitCause' = "ack")
       /\ (waitCause # "none" /\ pc' \notin {"check", "stopped"})
            => (waitCause' = waitCause /\ res'.wait = res.wait)
       /\ (pc' = "update" /\ pc # "update")
            => (pc = "waiting" /\ waitCause' = "ack")
      ]_vars

\* a wait of variant B that met the deadline although frames came at once
C13_Witness ==
    /\ variant = "B"
    /\ waitCause = "timeout"
    /\ ops.recv > TimeoutB

\* C14: no stage function lets an exception escape into main().
C14_NoExceptionEscapes ==
    /\ res.check # "raise"
    /\ res.setup # "raise"
    /\ res.update # "raise"
    /\ pc # "exc_sleep"

\* C15: a cycle that follows another one starts only after the scheduler
\* has waited the cycle interval.
C15_IntervalBetweenCycles ==
    [][(pc = "top" /\ pc' = "check" /\ res # NoRes)
          => waited >= DownloadCheckInterval]_vars

\* C16: a reply put on the bus after the trigger was sent is acknowledged
\* also when it comes before wait_for_response has opened its bus, unless
\* the channel fails; and one attempt opens one bus only.
C16_EarlyReplyAcknowledged ==
    /\ (missed > 0 /\ res.wait # "none" /\ ~ChannelError) => waitCause = "ack"
    /\ ops.open <= 1

TriggerEcho == RecvFrame(Frame(TriggerId, TriggerData))

====
